---- MODULE Spec2Model ----
(***************************************************************************)
(* A model of the ClamAV client (src/src/client.rs) and of its response    *)
(* parsers (src/src/response.rs).                                          *)
(*                                                                         *)
(* Text is a sequence of character codes, so that "OK" is <<79, 75>> and   *)
(* NUL is 0.  A byte buffer is a run-length encoded byte string: a         *)
(* sequence of runs [b |-> byte, n |-> count] in which neighbouring runs   *)
(* carry different bytes and every count is positive, so that two buffers  *)
(* hold the same bytes exactly when they are equal.  A usize that may      *)
(* exceed 32 bits is a pair <<hi, lo>> of base-2^16 limbs.                 *)
(***************************************************************************)
EXTENDS Integers, Sequences, FiniteSets, TLC

\* ------------------------------------------------------------------ bounds

\* Number of items in the script of a pull-based byte source.
MaxReads == 1
\* Number of transport anomalies (refused connect, failed or short write,
\* failed read) the environment injects in one behaviour.
MaxFaults == 1
\* Number of pieces a generated response text is built from.
MaxPieces == 4
\* Number of pieces the path and the signature name of a generated scan
\* record are built from.
MaxFieldPieces == 2
\* Number of characters of a generated signature name.
MaxNameLen == 6
\* Number of places in which a generated statistics block differs from the
\* block of the tests.
MaxEdits == 1

\* The most '/'-separated fields of a version text given to the parser.
MaxVersionFields == 4

\* --------------------------------------------------------- program constants

\* let mut buffer = [0; 4096]
WindowSize == 4096
\* BufReader::new(s): the capacity of the reader's internal buffer
BufCapacity == 8192

\* ---------------------------------------------------------------- integers

Limb == 2 ^ 16

Min(a, b) == IF a < b THEN a ELSE b

\* A small count as a usize.
ToSize(n) == <<n \div Limb, n % Limb>>

SizeAdd(a, b) ==
    LET lo == a[2] + b[2]
    IN  <<a[1] + b[1] + (lo \div Limb), lo % Limb>>

\* bytes_read > std::u32::MAX as usize
ExceedsU32(z) == z[1] >= Limb

\* len as u32: the low 32 bits
AsU32(z) == <<z[1] % Limb, z[2]>>

\* BigEndian::write_u32 / u32::to_be_bytes
ToBeBytes(u) == <<u[1] \div 256, u[1] % 256, u[2] \div 256, u[2] % 256>>

\* ------------------------------------------------------------ byte strings

Fill(b, n) == IF n = 0 THEN <<>> ELSE <<[b |-> b, n |-> n]>>

\* a ++ b
BCat(a, b) ==
    IF a = <<>> THEN b
    ELSE IF b = <<>> THEN a
    ELSE IF a[Len(a)].b = b[1].b
         THEN SubSeq(a, 1, Len(a) - 1)
              \o <<[b |-> b[1].b, n |-> a[Len(a)].n + b[1].n]>>
              \o Tail(b)
         ELSE a \o b

RECURSIVE FromBytes(_)
FromBytes(s) ==
    IF s = <<>> THEN <<>> ELSE BCat(Fill(s[1], 1), FromBytes(Tail(s)))

\* slice.len() as a usize
RECURSIVE BSize(_)
BSize(s) ==
    IF s = <<>> THEN <<0, 0>> ELSE SizeAdd(ToSize(s[1].n), BSize(Tail(s)))

\* slice.len() of a buffer known to be short
RECURSIVE BLen(_)
BLen(s) == IF s = <<>> THEN 0 ELSE s[1].n + BLen(Tail(s))

\* &s[..k]
RECURSIVE BTake(_, _)
BTake(s, k) ==
    IF k = 0 \/ s = <<>> THEN <<>>
    ELSE IF s[1].n <= k THEN <<s[1]>> \o BTake(Tail(s), k - s[1].n)
    ELSE <<[b |-> s[1].b, n |-> k]>>

\* &s[k..]
RECURSIVE BDrop(_, _)
BDrop(s, k) ==
    IF k = 0 \/ s = <<>> THEN s
    ELSE IF s[1].n <= k THEN BDrop(Tail(s), k - s[1].n)
    ELSE <<[b |-> s[1].b, n |-> s[1].n - k]>> \o Tail(s)

\* -------------------------------------------------------------------- text

\* Option<T>
None == <<>>
Some(x) == <<x>>

\* Vec::get
Get(xs, i) == IF i < Len(xs) THEN Some(xs[i + 1]) ELSE None

\* str::starts_with
StartsWith(s, p) == Len(p) <= Len(s) /\ SubSeq(s, 1, Len(p)) = p

\* str::ends_with
EndsWith(s, p) ==
    Len(p) <= Len(s) /\ SubSeq(s, Len(s) - Len(p) + 1, Len(s)) = p

\* str::contains
Contains(s, p) ==
    \E i \in 1..(Len(s) - Len(p) + 1) : SubSeq(s, i, i + Len(p) - 1) = p

\* The least element of a set of indices, or 0 when there is none.
First(S) == IF S = {} THEN 0 ELSE CHOOSE j \in S : \A k \in S : j <= k

\* Index of the first occurrence of the character c in s at or after i, or 0.
FindChar(s, c, i) == First({j \in i..Len(s) : s[j] = c})

\* str::splitn(n, c) for n >= 1: at most n pieces, the last one keeps the rest.
RECURSIVE SplitN(_, _, _)
SplitN(s, n, c) ==
    LET i == FindChar(s, c, 1)
    IN  IF n = 1 \/ i = 0 THEN <<s>>
        ELSE <<SubSeq(s, 1, i - 1)>> \o SplitN(SubSeq(s, i + 1, Len(s)), n - 1, c)

\* str::split(c): one piece more than there are separators.
RECURSIVE Split(_, _)
Split(s, c) ==
    LET i == FindChar(s, c, 1)
    IN  IF i = 0 THEN <<s>>
        ELSE <<SubSeq(s, 1, i - 1)>> \o Split(SubSeq(s, i + 1, Len(s)), c)

\* char::is_whitespace (the Unicode White_Space property)
IsWhitespace(c) ==
    \/ c \in 9..13
    \/ c \in {32, 133, 160, 5760, 8232, 8233, 8239, 8287, 12288}
    \/ c \in 8192..8202

\* str::split_whitespace: the maximal runs of non-whitespace characters.
RECURSIVE SplitWhitespace(_)
SplitWhitespace(s) ==
    LET start == First({j \in 1..Len(s) : ~IsWhitespace(s[j])})
        stop  == First({j \in start..Len(s) : j = Len(s) \/ IsWhitespace(s[j + 1])})
    IN  IF start = 0 THEN <<>>
        ELSE <<SubSeq(s, start, stop)>> \o SplitWhitespace(SubSeq(s, stop + 1, Len(s)))

\* str::trim_end_matches(c)
RECURSIVE TrimEndMatches(_, _)
TrimEndMatches(s, c) ==
    IF s # <<>> /\ s[Len(s)] = c
    THEN TrimEndMatches(SubSeq(s, 1, Len(s) - 1), c)
    ELSE s

\* Iterator::take_while(|s| !s.starts_with(p))
RECURSIVE TakeWhileNotStartsWith(_, _)
TakeWhileNotStartsWith(ts, p) ==
    IF ts = <<>> \/ StartsWith(ts[1], p) THEN <<>>
    ELSE <<ts[1]>> \o TakeWhileNotStartsWith(Tail(ts), p)

\* Iterator::collect::<String>()
RECURSIVE Collect(_)
Collect(ts) == IF ts = <<>> THEN <<>> ELSE ts[1] \o Collect(Tail(ts))

\* A variant of the filter that lets every segment through.
FilterNothing(ts) == ts

\* Iterator::filter(|s| s != &"")
RECURSIVE FilterNonEmpty(_)
FilterNonEmpty(ts) ==
    IF ts = <<>> THEN <<>>
    ELSE IF ts[1] = <<>> THEN FilterNonEmpty(Tail(ts))
    ELSE <<ts[1]>> \o FilterNonEmpty(Tail(ts))

\* "OK"
OkSuffix == <<79, 75>>
\* "FOUND"
FoundMarker == <<70, 79, 85, 78, 68>>
\* '\0', ':', '-', '.'
NulChar == 0
ColonChar == 58
DashChar == 45
DotChar == 46

\* Option::map(..).flatten() over Vec::get
GetOf(oxs, i) == IF oxs = None THEN None ELSE Get(oxs[1], i)

\* A variant of Signature::from that splits the name part at every '.'.
SignatureFromSplitAll(str) ==
    LET xs == SplitN(str, 2, DashChar)
        sig0_xs == IF Get(xs, 0) = None THEN None
                   ELSE Some(Split(Get(xs, 0)[1], DotChar))
        sig1_xs == IF Get(xs, 1) = None THEN None
                   ELSE Some(SplitN(Get(xs, 1)[1], 2, DashChar))
    IN  [platform   |-> GetOf(sig0_xs, 0),
         category   |-> GetOf(sig0_xs, 1),
         virus      |-> GetOf(sig0_xs, 2),
         signum     |-> GetOf(sig1_xs, 0),
         sigversion |-> GetOf(sig1_xs, 1),
         raw        |-> str]

\* Signature::from
SignatureFrom(str) ==
    LET xs == SplitN(str, 2, DashChar)
        sig0_xs == IF Get(xs, 0) = None THEN None
                   ELSE Some(SplitN(Get(xs, 0)[1], 3, DotChar))
        sig1_xs == IF Get(xs, 1) = None THEN None
                   ELSE Some(SplitN(Get(xs, 1)[1], 2, DashChar))
    IN  [platform   |-> GetOf(sig0_xs, 0),
         category   |-> GetOf(sig0_xs, 1),
         virus      |-> GetOf(sig0_xs, 2),
         signum     |-> GetOf(sig1_xs, 0),
         sigversion |-> GetOf(sig1_xs, 1),
         raw        |-> str]

\* ScanResult
ScanOk == [tag |-> "Ok"]
ScanFound(path, sig) == [tag |-> "Found", path |-> path, sig |-> sig]
ScanError(msg) == [tag |-> "Error", msg |-> msg]

\* A variant of the closure that looks for "FOUND" before it looks for "OK".
ClassifySegmentFoundFirst(s) ==
    IF Contains(s, FoundMarker)
    THEN LET split == SplitWhitespace(s)
             path == TrimEndMatches(split[1], ColonChar)
             virus == Collect(TakeWhileNotStartsWith(Tail(split), FoundMarker))
         IN  ScanFound(path, SignatureFrom(virus))
    ELSE IF EndsWith(s, OkSuffix) THEN ScanOk
    ELSE ScanError(s)

\* The closure of ScanResult::parse, applied to one non-empty segment.
ClassifySegment(s) ==
    IF EndsWith(s, OkSuffix) THEN ScanOk
    ELSE IF Contains(s, FoundMarker)
    THEN LET split == SplitWhitespace(s)
             path == TrimEndMatches(split[1], ColonChar)
             virus == Collect(TakeWhileNotStartsWith(Tail(split), FoundMarker))
         IN  ScanFound(path, SignatureFrom(virus))
    ELSE ScanError(s)

\* ScanResult::parse
ScanResultParse(s) ==
    LET segs == FilterNonEmpty(Split(s, NulChar))
    IN  [i \in 1..Len(segs) |-> ClassifySegment(segs[i])]

\* ----------------------------------------------------------------- numbers

IsDigit(c) == c \in 48..57

RECURSIVE StripZeros(_)
StripZeros(ds) ==
    IF Len(ds) > 1 /\ ds[1] = 48 THEN StripZeros(Tail(ds)) ELSE ds

\* Lexicographic order of two digit strings of the same length.
RECURSIVE DigitsLeq(_, _)
DigitsLeq(a, b) ==
    IF a = <<>> THEN TRUE
    ELSE IF a[1] # b[1] THEN a[1] < b[1]
    ELSE DigitsLeq(Tail(a), Tail(b))

\* u64::MAX, in decimal
U64MaxDigits ==
    <<49, 56, 52, 52, 54, 55, 52, 52, 48, 55, 51, 55, 48, 57, 53, 53, 49, 54, 49, 53>>

\* u64::from_str: an optional '+', then one or more decimal digits, no overflow.
\* The value is kept as its decimal digits without leading zeros.
ParseU64(t) ==
    LET ds == IF t # <<>> /\ t[1] = 43 THEN Tail(t) ELSE t
        v  == StripZeros(ds)
    IN  IF ds = <<>> \/ \E i \in 1..Len(ds) : ~IsDigit(ds[i]) THEN None
        ELSE IF Len(v) > Len(U64MaxDigits) THEN None
        ELSE IF Len(v) = Len(U64MaxDigits) /\ ~DigitsLeq(v, U64MaxDigits) THEN None
        ELSE Some(v)

\* The value of a short digit string.
RECURSIVE DigitsValue(_)
DigitsValue(ds) ==
    IF ds = <<>> THEN 0
    ELSE DigitsValue(SubSeq(ds, 1, Len(ds) - 1)) * 10 + (ds[Len(ds)] - 48)

\* ClamError and Result<T>
Ok(v) == [kind |-> "Ok", val |-> v]
Err(kind, v) == [kind |-> kind, val |-> v]
Pending == [kind |-> "Pending", val |-> <<>>]

\* ------------------------------------------------------------------- dates

\* str::trim_start (chrono's Item::Space and the lead of every numeric item)
RECURSIVE TrimStart(_)
TrimStart(s) ==
    IF s # <<>> /\ IsWhitespace(s[1]) THEN TrimStart(Tail(s)) ELSE s

\* b | 32 on an ASCII letter
Lower(c) == IF c \in 65..90 THEN c + 32 ELSE c

\* "mon" .. "sun"
ShortWeekdays ==
    << <<109, 111, 110>>, <<116, 117, 101>>, <<119, 101, 100>>, <<116, 104, 117>>,
       <<102, 114, 105>>, <<115, 97, 116>>, <<115, 117, 110>> >>

\* "jan" .. "dec"
ShortMonths ==
    << <<106, 97, 110>>, <<102, 101, 98>>, <<109, 97, 114>>, <<97, 112, 114>>,
       <<109, 97, 121>>, <<106, 117, 110>>, <<106, 117, 108>>, <<97, 117, 103>>,
       <<115, 101, 112>>, <<111, 99, 116>>, <<110, 111, 118>>, <<100, 101, 99>> >>

\* chrono scan::short_weekday / scan::short_month0: three letters, any case.
\* The index of the name (from 1) and the rest of the text, or None.
ScanName(s, names) ==
    IF Len(s) < 3 THEN None
    ELSE LET w == <<Lower(s[1]), Lower(s[2]), Lower(s[3])>>
         IN  IF \E i \in 1..Len(names) : names[i] = w
             THEN Some([v |-> CHOOSE i \in 1..Len(names) : names[i] = w,
                        rest |-> SubSeq(s, 4, Len(s))])
             ELSE None

\* The number of leading digits of s, at most max.
RECURSIVE DigitRun(_, _)
DigitRun(s, max) ==
    IF max = 0 \/ s = <<>> \/ ~IsDigit(s[1]) THEN 0
    ELSE 1 + DigitRun(Tail(s), max - 1)

\* A value no field of a date accepts, standing for any number too long to hold.
TooLarge == 10 ^ 9

\* chrono scan::number(s, 1, max) after trim_start.
ScanNumber(s0, max) ==
    LET s == TrimStart(s0)
        k == DigitRun(s, max)
        ds == StripZeros(SubSeq(s, 1, k))
    IN  IF k = 0 THEN None
        ELSE Some([v |-> IF Len(ds) > 8 THEN TooLarge ELSE DigitsValue(ds),
                   rest |-> SubSeq(s, k + 1, Len(s))])

\* A numeric item that takes a sign (the year): with an explicit sign the
\* width is not limited.
ScanSigned(s0, width) ==
    LET s == TrimStart(s0)
    IN  IF s # <<>> /\ s[1] = 45
        THEN LET r == ScanNumber(Tail(s), Len(s))
             IN  IF r = None \/ Tail(s) # TrimStart(Tail(s)) THEN None
                 ELSE Some([v |-> 0 - r[1].v, rest |-> r[1].rest])
        ELSE IF s # <<>> /\ s[1] = 43
        THEN LET r == ScanNumber(Tail(s), Len(s))
             IN  IF r = None \/ Tail(s) # TrimStart(Tail(s)) THEN None ELSE r
        ELSE ScanNumber(s, width)

\* Item::Literal(":")
ScanColon(s) == IF s # <<>> /\ s[1] = ColonChar THEN Some(Tail(s)) ELSE None

IsLeapYear(y) == (y % 4 = 0 /\ y % 100 # 0) \/ y % 400 = 0

DaysInMonth(y, m) ==
    IF m = 2 THEN (IF IsLeapYear(y) THEN 29 ELSE 28)
    ELSE IF m \in {4, 6, 9, 11} THEN 30 ELSE 31

\* Days from 0000-03-01 to the date, in the proleptic Gregorian calendar.
DaysFromCivil(y0, m, d) ==
    LET y == IF m <= 2 THEN y0 - 1 ELSE y0
        mp == IF m > 2 THEN m - 3 ELSE m + 9
    IN  365 * y + (y \div 4) - (y \div 100) + (y \div 400)
        + ((153 * mp + 2) \div 5) + d - 1

\* The weekday of a date, Monday = 1 .. Sunday = 7 (0000-03-01 is a Wednesday).
WeekdayOf(y, m, d) == ((DaysFromCivil(y, m, d) + 2) % 7) + 1

\* The last step of Utc.datetime_from_str: the parsed fields must leave no
\* input and name a real instant whose weekday is the one given.
DateOf(wd, mo, dd, hh, mi, ss, yy, rest) ==
    IF rest # <<>> THEN None
    ELSE IF yy > 262143 \/ yy < -262144 THEN None
    ELSE IF dd < 1 \/ dd > DaysInMonth(yy, mo) THEN None
    ELSE IF WeekdayOf(yy, mo, dd) # wd THEN None
    ELSE IF hh > 23 \/ mi > 59 \/ ss > 60 THEN None
    ELSE Some([year |-> yy, month |-> mo, day |-> dd,
               hour |-> hh, minute |-> mi, second |-> ss])

\* The items of the format "%a %b %e %T %Y", last to first: each takes the
\* output r of the item before it and hands its own to the next.
DateYear(wd, mo, dd, hh, mi, ss, r) ==
    IF r = None THEN None ELSE DateOf(wd, mo, dd, hh, mi, ss, r[1].v, r[1].rest)

DateSecond(wd, mo, dd, hh, mi, r) ==
    IF r = None THEN None
    ELSE DateYear(wd, mo, dd, hh, mi, r[1].v, ScanSigned(r[1].rest, 4))

DateColon2(wd, mo, dd, hh, mi, r) ==
    IF r = None THEN None ELSE DateSecond(wd, mo, dd, hh, mi, ScanNumber(r[1], 2))

DateMinute(wd, mo, dd, hh, r) ==
    IF r = None THEN None ELSE DateColon2(wd, mo, dd, hh, r[1].v, ScanColon(r[1].rest))

DateColon1(wd, mo, dd, hh, r) ==
    IF r = None THEN None ELSE DateMinute(wd, mo, dd, hh, ScanNumber(r[1], 2))

DateHour(wd, mo, dd, r) ==
    IF r = None THEN None ELSE DateColon1(wd, mo, dd, r[1].v, ScanColon(r[1].rest))

DateDay(wd, mo, r) ==
    IF r = None THEN None ELSE DateHour(wd, mo, r[1].v, ScanNumber(r[1].rest, 2))

DateMonth(wd, r) ==
    IF r = None THEN None ELSE DateDay(wd, r[1].v, ScanNumber(r[1].rest, 2))

DateWeekday(r) ==
    IF r = None THEN None
    ELSE DateMonth(r[1].v, ScanName(TrimStart(r[1].rest), ShortMonths))

\* Utc.datetime_from_str(s, "%a %b %e %T %Y"): the fields of the timestamp, or
\* None when the text does not match or names no real instant.
DateParse(s) == DateWeekday(ScanName(s, ShortWeekdays))

\* '/'
SlashChar == 47

\* Version::parse with the date examined before the build number.
VersionOfDateFirst(parts, build_number, release_date) ==
    IF release_date = None THEN Err("DateParseError", parts[3])
    ELSE IF build_number = None THEN Err("IntParseError", parts[2])
    ELSE Ok([version_tag  |-> parts[1],
             build_number |-> build_number[1],
             release_date |-> release_date[1]])

\* The end of Version::parse, given the three fields and what the second and
\* the third parse to.
VersionOf(parts, build_number, release_date) ==
    IF build_number = None THEN Err("IntParseError", parts[2])
    ELSE IF release_date = None THEN Err("DateParseError", parts[3])
    ELSE Ok([version_tag  |-> parts[1],
             build_number |-> build_number[1],
             release_date |-> release_date[1]])

VersionOfParts(s, parts) ==
    IF Len(parts) # 3 THEN Err("InvalidData", s)
    ELSE VersionOf(parts, ParseU64(parts[2]), DateParse(parts[3]))

\* Version::parse
VersionParse(s) == VersionOfParts(s, Split(TrimEndMatches(s, NulChar), SlashChar))

\* ------------------------------------------------------------------- stats

\* Index of the first occurrence of p in s at or after i, or 0.
FindSub(s, p, i) ==
    First({j \in i..(Len(s) - Len(p) + 1) : SubSeq(s, j, j + Len(p) - 1) = p})

\* nom take_until_and_consume!(p): the text before the first p and the text
\* after it, or None when p does not occur.
TakeUntilAndConsume(s, p) ==
    LET i == FindSub(s, p, 1)
    IN  IF i = 0 THEN None
        ELSE Some([v |-> SubSeq(s, 1, i - 1),
                   rest |-> SubSeq(s, i + Len(p), Len(s))])

\* nom take_until!(p): as above, but p stays in the input.
TakeUntil(s, p) ==
    LET i == FindSub(s, p, 1)
    IN  IF i = 0 THEN None
        ELSE Some([v |-> SubSeq(s, 1, i - 1), rest |-> SubSeq(s, i, Len(s))])

\* nom tag!(p)
Tag(s, p) ==
    IF StartsWith(s, p) THEN Some(SubSeq(s, Len(p) + 1, Len(s))) ELSE None

\* A variant of map_res! that keeps the text when the conversion fails.
MapResKeep(r, n) == r

\* map_res!(.., u64::from_str) on the output r of a take_until step
MapResU64(r, n) ==
    IF r = None \/ n = None THEN None ELSE Some([v |-> n[1], rest |-> r[1].rest])

\* The steps of the grammar after tag!("POOLS: "), in order: the anchor that
\* ends the step, and what is made of the text before it ("u64": a number,
\* "str": a string, "skip": nothing; "peek" is take_until!, which leaves the
\* anchor in the input).
StatsSteps ==
    << [kind |-> "u64",  anchor |-> <<10, 10, 83, 84, 65, 84, 69, 58, 32>>],
       [kind |-> "str",  anchor |-> <<10, 84, 72, 82, 69, 65, 68, 83, 58, 32, 108, 105, 118, 101, 32>>],
       [kind |-> "u64",  anchor |-> <<32, 32, 105, 100, 108, 101, 32>>],
       [kind |-> "u64",  anchor |-> <<32, 109, 97, 120, 32>>],
       [kind |-> "u64",  anchor |-> <<32, 105, 100, 108, 101, 45, 116, 105, 109, 101, 111, 117, 116, 32>>],
       [kind |-> "u64",  anchor |-> <<10, 81, 85, 69, 85, 69, 58, 32>>],
       [kind |-> "u64",  anchor |-> <<32, 105, 116, 101, 109, 115, 10>>],
       [kind |-> "skip", anchor |-> <<104, 101, 97, 112, 32>>],
       [kind |-> "str",  anchor |-> <<32, 109, 109, 97, 112, 32>>],
       [kind |-> "str",  anchor |-> <<32, 117, 115, 101, 100, 32>>],
       [kind |-> "str",  anchor |-> <<32, 102, 114, 101, 101, 32>>],
       [kind |-> "str",  anchor |-> <<32, 114, 101, 108, 101, 97, 115, 97, 98, 108, 101, 32>>],
       [kind |-> "str",  anchor |-> <<32, 112, 111, 111, 108, 115, 32>>],
       [kind |-> "skip", anchor |-> <<112, 111, 111, 108, 115, 95, 117, 115, 101, 100, 32>>],
       [kind |-> "str",  anchor |-> <<32, 112, 111, 111, 108, 115, 95, 116, 111, 116, 97, 108, 32>>],
       [kind |-> "peek", anchor |-> <<10>>] >>

\* "POOLS: "
StatsTag == <<80, 79, 79, 76, 83, 58, 32>>

\* One step of do_parse! on the input s.
StatsStep(s, step) ==
    IF step.kind = "peek" THEN TakeUntil(s, step.anchor)
    ELSE IF step.kind = "u64"
    THEN MapResU64(TakeUntilAndConsume(s, step.anchor),
                   ParseU64(SubSeq(s, 1, FindSub(s, step.anchor, 1) - 1)))
    ELSE TakeUntilAndConsume(s, step.anchor)

\* A variant of the Stats record with mem_heap and mem_mmap in each other's
\* place.
StatsOfSwapped(fs, last) ==
    [pools |-> fs[1],
     state |-> fs[2],
     threads_live |-> fs[3],
     threads_idle |-> fs[4],
     threads_max |-> fs[5],
     threads_idle_timeout_secs |-> fs[6],
     queue |-> fs[7],
     mem_heap |-> fs[9],
     mem_mmap |-> fs[8],
     mem_used |-> fs[10],
     mem_free |-> fs[11],
     mem_releasable |-> fs[12],
     pools_used |-> fs[13],
     pools_total |-> last]

\* The Stats record built from the fourteen fields bound by do_parse!.
StatsOf(fs, last) ==
    [pools |-> fs[1],
     state |-> fs[2],
     threads_live |-> fs[3],
     threads_idle |-> fs[4],
     threads_max |-> fs[5],
     threads_idle_timeout_secs |-> fs[6],
     queue |-> fs[7],
     mem_heap |-> fs[8],
     mem_mmap |-> fs[9],
     mem_used |-> fs[10],
     mem_free |-> fs[11],
     mem_releasable |-> fs[12],
     pools_used |-> fs[13],
     pools_total |-> last]

\* do_parse!: the steps from the i-th on, on the output r of the step before;
\* fs are the fields bound so far.  The Stats record, or None.
RECURSIVE StatsFields(_, _, _)
StatsFields(r, i, fs) ==
    IF r = None THEN None
    ELSE IF i > Len(StatsSteps) THEN Some(StatsOf(fs, r[1].v))
    ELSE StatsFields(StatsStep(r[1].rest, StatsSteps[i]), i + 1,
                     IF i = 1 \/ StatsSteps[i - 1].kind = "skip" THEN fs
                     ELSE Append(fs, r[1].v))

\* parse_stats, from the output r of tag!("POOLS: "): the Stats record, or None
ParseStatsAfterTag(r) ==
    IF r = None THEN None ELSE StatsFields(Some([v |-> <<>>, rest |-> r[1]]), 1, <<>>)

\* parse_stats
ParseStats(s) == ParseStatsAfterTag(Tag(s, StatsTag))

\* The match of Stats::parse on the outcome r of parse_stats.
StatsResult(s, r) ==
    IF r = None THEN Err("InvalidData", s) ELSE Ok(r[1])

\* Stats::parse
StatsParse(s) == StatsResult(s, ParseStats(s))

\* ------------------------------------------------------------------- state

VARIABLES
    client,     \* ClamClient: the resolved socket address and the timeout
    workload,   \* the callers that use the client and the inputs they draw from
    faults,     \* the transport anomalies the environment may still inject
    proc,       \* per caller: the operation in progress, its locals and result
    conns,      \* the TCP connections: state, owner, bytes carried
    text,       \* the input of a parser run
    parsed      \* the output of a parser run

vars == <<client, workload, faults, proc, conns, text, parsed>>

\* The connection slots.  A connect takes the lowest free one.
MaxConns == 4
ConnIds == 1..MaxConns

\* ---------------------------------------------------------------- commands

\* b"zPING\0"
CmdPing == <<122, 80, 73, 78, 71, 0>>
\* b"zVERSION\0"
CmdVersion == <<122, 86, 69, 82, 83, 73, 79, 78, 0>>
\* b"zRELOAD\0"
CmdReload == <<122, 82, 69, 76, 79, 65, 68, 0>>
\* b"zSTATS\0"
CmdStats == <<122, 83, 84, 65, 84, 83, 0>>
\* b"zSHUTDOWN\0"
CmdShutdown == <<122, 83, 72, 85, 84, 68, 79, 87, 78, 0>>
\* b"zINSTREAM\0"
CmdInstream == <<122, 73, 78, 83, 84, 82, 69, 65, 77, 0>>

\* format!("zCONTSCAN {}\0", path) / format!("zSCAN {}\0", path)
ScanPathCommand(path, continue_on_virus) ==
    IF continue_on_virus
    THEN <<122, 67, 79, 78, 84, 83, 67, 65, 78, 32>> \o path \o <<NulChar>>
    ELSE <<122, 83, 67, 65, 78, 32>> \o path \o <<NulChar>>

\* format!("zSCAN {}\0", path)
MultiscanPathCommand(path) == <<122, 83, 67, 65, 78, 32>> \o path \o <<NulChar>>

\* A variant of the expected reply that includes the daemon's terminating NUL.
PongWithNul == <<80, 79, 78, 71, 0>>

\* "PONG"
Pong == <<80, 79, 78, 71>>

SimpleOps ==
    {"ping", "version", "reload", "scan_path", "multiscan_path", "stats", "shutdown"}
UploadOps == {"scan_stream", "scan_bytes", "scan_string", "scan_chunks"}

\* What a public operation makes of the outcome r of its exchange.
Return(op, r) ==
    CASE op = "ping" ->
            [kind |-> "Bool", val |-> (r.kind = "Ok" /\ r.val = Pong)]
      [] op = "version" ->
            IF r.kind = "Ok" THEN VersionParse(r.val) ELSE r
      [] op = "stats" ->
            IF r.kind = "Ok" THEN StatsParse(r.val) ELSE r
      [] op \in {"scan_path", "multiscan_path"} ->
            IF r.kind = "Ok" THEN Ok(ScanResultParse(r.val)) ELSE r
      [] OTHER -> r

\* The tail of the three uploads: parse the response, keep the first verdict.
\* A variant of the verdict of an upload that returns the last result.
UploadVerdictLast(result) ==
    LET scan_result == ScanResultParse(result)
    IN  IF scan_result # <<>> THEN Ok(scan_result[Len(scan_result)])
        ELSE Err("InvalidData", result)

\* The verdict of an upload: scan_result.first(), or InvalidData(result)
UploadVerdict(result) ==
    LET scan_result == ScanResultParse(result)
    IN  IF scan_result # <<>> THEN Ok(scan_result[1])
        ELSE Err("InvalidData", result)

\* A variant of slice::chunks that keeps the full chunks only (chunks_exact).
ChunksExact(b, size) ==
    [i \in 1..(BLen(b) \div size) |-> BTake(BDrop(b, (i - 1) * size), size)]

\* slice::chunks(size)
RECURSIVE Chunks(_, _)
Chunks(b, size) ==
    IF b = <<>> THEN <<>>
    ELSE <<BTake(b, size)>> \o Chunks(BDrop(b, size), size)

\* ------------------------------------------------------------- byte source

\* Read::read of the caller's source into a buffer of cap bytes.  The source
\* is a script: each item is a failure, or bytes that one read may deliver.
InnerRead(script, cap) ==
    IF script = <<>> THEN [res |-> "ok", data |-> <<>>, script |-> <<>>]
    ELSE IF script[1].kind = "err"
    THEN [res |-> "err", data |-> <<>>, script |-> Tail(script)]
    ELSE LET rest == BDrop(script[1].bytes, cap)
         IN  [res |-> "ok",
              data |-> BTake(script[1].bytes, cap),
              script |-> IF rest = <<>> THEN Tail(script)
                         ELSE <<[kind |-> "data", bytes |-> rest]>> \o Tail(script)]

\* BufReader::new(s)
NewReader(script) == [script |-> script, buf |-> <<>>]

\* BufReader::read into a buffer of cap < BufCapacity bytes: refill the
\* internal buffer with one read of the source when it is empty, then hand
\* out what fits.
ReaderRead(reader, cap) ==
    LET fill == IF reader.buf = <<>>
                THEN InnerRead(reader.script, BufCapacity)
                ELSE [res |-> "ok", data |-> reader.buf, script |-> reader.script]
    IN  IF fill.res = "err"
        THEN [res |-> "err", data |-> <<>>,
              reader |-> [script |-> fill.script, buf |-> <<>>]]
        ELSE [res |-> "ok",
              data |-> BTake(fill.data, cap),
              reader |-> [script |-> fill.script, buf |-> BDrop(fill.data, cap)]]

\* -------------------------------------------------------------- connections

FreeConn ==
    [state |-> "free", owner |-> 0, wire |-> <<>>, sent |-> <<>>,
     writers |-> {}, readers |-> {}, recv |-> <<>>, eof |-> FALSE]

\* TcpStream::connect: a fresh stream in the lowest free slot.
OpenConn(cs, k, who) == [cs EXCEPT ![k] = [FreeConn EXCEPT !.state = "open", !.owner = who]]

\* A variant of the return of an operation that leaves its stream open.
DropConnLeak(cs, k) == cs

\* Drop of the TcpStream when the operation returns.
DropConn(cs, k) == IF k = 0 THEN cs ELSE [cs EXCEPT ![k].state = "closed"]

\* A variant of the client that keeps one stream for all operations: the
\* open stream in the lowest slot.
HandleShared(c) == First({k \in ConnIds : conns[k].state = "open"})

\* The stream an operation writes to and reads from: its own local handle.
Handle(c) == proc[c].conn

\* The bytes of d the transport takes in one write call.
Accepted(d, o) == IF o.kind = "full" THEN d ELSE BTake(d, o.n)

\* d holds at least k bytes.
HasLen(d, k) == BLen(BTake(d, k)) = k

\* TcpStream::write(d): everything, or (an anomaly) a failure or a proper prefix.
WriteOutcomes(d) ==
    {[kind |-> "full", n |-> 0]}
    \cup (IF faults > 0 THEN {[kind |-> "err", n |-> 0]} ELSE {})
    \cup {[kind |-> "short", n |-> k] :
            k \in {j \in {1, WindowSize - 1} : faults > 0 /\ HasLen(d, j + 1)}}

\* The effect of a write call that returned Ok on the stream k.
Written(cs, k, who, d, taken) ==
    [cs EXCEPT ![k].wire = BCat(@, taken),
               ![k].sent = BCat(@, d),
               ![k].writers = @ \cup {who}]

\* ------------------------------------------------------------------ callers

IdleProc ==
    [pc |-> "idle", op |-> "none", cmd |-> <<>>,
     reader |-> NewReader(<<>>), buffer |-> <<>>, bytes_read |-> 0,
     payload |-> <<>>, chunks |-> <<>>,
     conn |-> 0, opened |-> 0, result |-> Pending, response |-> None,
     reads |-> <<>>, written |-> <<>>, failed |-> FALSE, over |-> FALSE]

\* The locals of an operation as it starts.
StartProc(inp) ==
    [IdleProc EXCEPT
        !.pc = "connect",
        !.op = inp.op,
        !.cmd = inp.cmd,
        !.reader = NewReader(inp.script),
        !.buffer = IF inp.op = "scan_stream" THEN Fill(0, WindowSize) ELSE <<>>,
        !.payload = inp.payload,
        !.chunks = inp.chunks]

\* The operation returns r: an early return or the end of the function.
Finish(p, r, io) ==
    [p EXCEPT !.pc = "done", !.result = Return(p.op, r), !.failed = @ \/ io]

\* ------------------------------------------------------------------ actions

\* A caller invokes a public operation of the client.  The streams of its
\* earlier operation, long closed, are forgotten.
Call(c) ==
    /\ c \in workload.callers
    /\ proc[c].pc \in {"idle", "done"}
    /\ \E inp \in workload.calls :
          proc' = [proc EXCEPT ![c] = StartProc(inp)]
    /\ conns' = [k \in ConnIds |->
                    IF conns[k].state = "closed" /\ conns[k].owner = c
                    THEN FreeConn ELSE conns[k]]
    /\ UNCHANGED <<client, workload, faults, text, parsed>>

\* self.connect()?
Connect(c) ==
    /\ proc[c].pc = "connect"
    /\ \E k \in ConnIds :
          /\ conns[k].state = "free"
          /\ \A j \in ConnIds : j < k => conns[j].state # "free"
          /\ \E refused \in {FALSE} \cup {f \in {TRUE} : faults > 0} :
                IF refused
                THEN /\ proc' = [proc EXCEPT
                            ![c] = Finish(@, Err("ConnectionError", <<>>), TRUE)]
                     /\ conns' = conns
                     /\ faults' = faults - 1
                ELSE /\ proc' = [proc EXCEPT
                            ![c].conn = k,
                            ![c].opened = @ + 1,
                            ![c].pc = IF proc[c].op \in SimpleOps
                                      THEN "command_write" ELSE "upload_init"]
                     /\ conns' = OpenConn(conns, k, c)
                     /\ faults' = faults
    /\ UNCHANGED <<client, workload, text, parsed>>

\* command: s.write_all(c).  It sends everything, or fails after sending
\* a part.
CommandWrite(c) ==
    /\ proc[c].pc = "command_write"
    /\ LET d == FromBytes(proc[c].cmd)
       IN  \E sentPart \in {-1} \cup {n \in {0, 1} : faults > 0} :
              IF sentPart < 0
              THEN /\ conns' = Written(conns, Handle(c), c, d, d)
                   /\ proc' = [proc EXCEPT ![c].pc = "command_read",
                                            ![c].written = BCat(@, d)]
                   /\ faults' = faults
              ELSE /\ conns' = DropConn(
                          [conns EXCEPT ![Handle(c)].wire = BCat(@, BTake(d, sentPart)),
                                        ![Handle(c)].writers = @ \cup {c}],
                          proc[c].conn)
                   /\ proc' = [proc EXCEPT
                          ![c] = Finish(@, Err("CommandError", <<>>), TRUE)]
                   /\ faults' = faults - 1
    /\ UNCHANGED <<client, workload, text, parsed>>

\* A variant of the read that returns with the first bytes it receives.
ReadOutcomesOnReply(cn) ==
    {[ok |-> TRUE, text |-> cn.recv] : e \in {x \in {TRUE} : cn.eof \/ cn.recv # <<>>}}
    \cup {[ok |-> FALSE, text |-> <<>>] : f \in {x \in {TRUE} : faults > 0}}

\* TcpStream::read_to_string on the stream cn: everything received, once the
\* far end has closed the stream, or (an anomaly) a failure.  Until one of the
\* two the call does not return.
ReadOutcomes(cn) ==
    {[ok |-> TRUE, text |-> cn.recv] : e \in {x \in {TRUE} : cn.eof}}
    \cup {[ok |-> FALSE, text |-> <<>>] : f \in {x \in {TRUE} : faults > 0}}

\* The far end of the stream that read_to_string of c reads: the daemon, which
\* has the whole request by then, sends its reply.
PeerSend(c) ==
    /\ proc[c].pc \in {"command_read", "upload_read"}
    /\ conns[Handle(c)].state = "open"
    /\ ~conns[Handle(c)].eof
    /\ conns[Handle(c)].recv = <<>>
    /\ \E r \in workload.responses \ {<<>>} :
          conns' = [conns EXCEPT ![Handle(c)].recv = r]
    /\ UNCHANGED <<client, workload, faults, proc, text, parsed>>

\* The daemon closes the stream, after its reply or without one.
PeerClose(c) ==
    /\ proc[c].pc \in {"command_read", "upload_read"}
    /\ conns[Handle(c)].state = "open"
    /\ ~conns[Handle(c)].eof
    /\ conns' = [conns EXCEPT ![Handle(c)].eof = TRUE]
    /\ UNCHANGED <<client, workload, faults, proc, text, parsed>>

\* command: s.read_to_string(&mut r), and the operation's return
CommandRead(c) ==
    /\ proc[c].pc = "command_read"
    /\ \E o \in ReadOutcomes(conns[Handle(c)]) :
          /\ proc' = [proc EXCEPT
                 ![c] = IF o.ok
                        THEN [Finish(@, Ok(o.text), FALSE) EXCEPT !.response = Some(o.text)]
                        ELSE Finish(@, Err("CommandError", <<>>), TRUE)]
          /\ faults' = IF o.ok THEN faults ELSE faults - 1
    /\ conns' = DropConn([conns EXCEPT ![Handle(c)].readers = @ \cup {c}], proc[c].conn)
    /\ UNCHANGED <<client, workload, text, parsed>>

\* self.connection_write(&connection, d)?  followed by the locals `next`
ConnectionWrite(c, d, next) ==
    \E o \in WriteOutcomes(d) :
       /\ conns' = IF o.kind = "err"
                   THEN DropConn(conns, proc[c].conn)
                   ELSE Written(conns, Handle(c), c, d, Accepted(d, o))
       /\ proc' = [proc EXCEPT
              ![c] = IF o.kind = "err"
                     THEN Finish(@, Err("CommandError", <<>>), TRUE)
                     ELSE [next EXCEPT !.written = BCat(@, d)]]
       /\ faults' = IF o.kind = "full" THEN faults ELSE faults - 1

\* self.connection_write(&connection, b"zINSTREAM\0")?  and the entry of the loop
UploadInit(c) ==
    /\ proc[c].pc = "upload_init"
    /\ LET p == proc[c]
           chunks == IF p.op \in {"scan_bytes", "scan_string"}
                     THEN Chunks(p.payload, WindowSize)
                     ELSE p.chunks
       IN  ConnectionWrite(c, FromBytes(CmdInstream),
              [p EXCEPT !.chunks = chunks,
                        !.pc = IF p.op = "scan_stream" THEN "stream_read"
                               ELSE IF chunks = <<>> THEN "upload_term"
                               ELSE "chunk_len"])
    /\ UNCHANGED <<client, workload, text, parsed>>

\* scan_stream: while let Ok(bytes_read) = reader.read(&mut buffer), and the
\* check of bytes_read against u32::MAX
StreamRead(c) ==
    /\ proc[c].pc = "stream_read"
    /\ LET p == proc[c]
           r == ReaderRead(p.reader, WindowSize)
           n == BLen(r.data)
       IN  IF r.res = "err"
           THEN /\ proc' = [proc EXCEPT ![c].reader = r.reader,
                                        ![c].failed = TRUE,
                                        ![c].pc = "upload_term"]
                /\ conns' = conns
           ELSE IF ExceedsU32(ToSize(n))
           THEN /\ proc' = [proc EXCEPT
                       ![c] = Finish([@ EXCEPT !.over = TRUE],
                                     Err("InvalidDataLength", ToSize(n)), FALSE)]
                /\ conns' = DropConn(conns, p.conn)
           ELSE /\ proc' = [proc EXCEPT
                       ![c].reader = r.reader,
                       ![c].buffer = BCat(r.data, BDrop(p.buffer, n)),
                       ![c].bytes_read = n,
                       ![c].reads = Append(@, r.data),
                       ![c].pc = "stream_len"]
                /\ conns' = conns
    /\ UNCHANGED <<client, workload, faults, text, parsed>>

\* scan_stream: BigEndian::write_u32(&mut length_buffer, bytes_read as u32);
\*              self.connection_write(&connection, &length_buffer)?
StreamLen(c) ==
    /\ proc[c].pc = "stream_len"
    /\ ConnectionWrite(c, FromBytes(ToBeBytes(AsU32(ToSize(proc[c].bytes_read)))),
          [proc[c] EXCEPT !.pc = "stream_buffer"])
    /\ UNCHANGED <<client, workload, text, parsed>>

\* scan_stream: self.connection_write(&connection, &buffer)?  and the test
\*              that ends the loop
StreamBuffer(c) ==
    /\ proc[c].pc = "stream_buffer"
    /\ ConnectionWrite(c, proc[c].buffer,
          [proc[c] EXCEPT !.pc = IF proc[c].bytes_read < WindowSize
                                 THEN "upload_term" ELSE "stream_read"])
    /\ UNCHANGED <<client, workload, text, parsed>>

\* scan_bytes, scan_chunks: let len = chunk.len();
\*     self.connection_write(&connection, &(len as u32).to_be_bytes())?
ChunkLen(c) ==
    /\ proc[c].pc = "chunk_len"
    /\ LET len == BSize(proc[c].chunks[1])
       IN  ConnectionWrite(c, FromBytes(ToBeBytes(AsU32(len))),
              [proc[c] EXCEPT !.pc = "chunk_data",
                              !.over = @ \/ ExceedsU32(len)])
    /\ UNCHANGED <<client, workload, text, parsed>>

\* scan_bytes, scan_chunks: self.connection_write(&connection, chunk)?  and
\*     the step of the for loop
ChunkData(c) ==
    /\ proc[c].pc = "chunk_data"
    /\ ConnectionWrite(c, proc[c].chunks[1],
          [proc[c] EXCEPT !.chunks = Tail(@),
                          !.pc = IF Tail(proc[c].chunks) = <<>>
                                 THEN "upload_term" ELSE "chunk_len"])
    /\ UNCHANGED <<client, workload, text, parsed>>

\* self.connection_write(&connection, &[0, 0, 0, 0])?
UploadTerm(c) ==
    /\ proc[c].pc = "upload_term"
    /\ ConnectionWrite(c, FromBytes(<<0, 0, 0, 0>>),
          [proc[c] EXCEPT !.pc = "upload_read"])
    /\ UNCHANGED <<client, workload, text, parsed>>

\* connection.read_to_string(&mut result), and the verdict
UploadRead(c) ==
    /\ proc[c].pc = "upload_read"
    /\ \E o \in ReadOutcomes(conns[Handle(c)]) :
          /\ proc' = [proc EXCEPT
                 ![c] = IF o.ok
                        THEN [Finish(@, UploadVerdict(o.text), FALSE)
                                 EXCEPT !.response = Some(o.text)]
                        ELSE Finish(@, Err("ConnectionError", <<>>), TRUE)]
          /\ faults' = IF o.ok THEN faults ELSE faults - 1
    /\ conns' = DropConn([conns EXCEPT ![Handle(c)].readers = @ \cup {c}], proc[c].conn)
    /\ UNCHANGED <<client, workload, text, parsed>>

\* ------------------------------------------------------------------- inputs

\* "/t"
SomePath == <<47, 116>>

NoInput == [op |-> "none", cmd |-> <<>>, script |-> <<>>, payload |-> <<>>, chunks |-> <<>>]

SimpleCalls ==
    {[NoInput EXCEPT !.op = "ping", !.cmd = CmdPing],
     [NoInput EXCEPT !.op = "version", !.cmd = CmdVersion],
     [NoInput EXCEPT !.op = "reload", !.cmd = CmdReload],
     [NoInput EXCEPT !.op = "scan_path", !.cmd = ScanPathCommand(SomePath, TRUE)],
     [NoInput EXCEPT !.op = "scan_path", !.cmd = ScanPathCommand(SomePath, FALSE)],
     [NoInput EXCEPT !.op = "multiscan_path", !.cmd = MultiscanPathCommand(SomePath)],
     [NoInput EXCEPT !.op = "stats", !.cmd = CmdStats],
     [NoInput EXCEPT !.op = "shutdown", !.cmd = CmdShutdown]}

\* What one item of a source script does: fail (-1), or deliver so many bytes.
ItemKinds == {-1, 3, WindowSize, BufCapacity}

\* The script with the given items; the bytes of item i all have the value i.
ScriptOf(kinds) ==
    [i \in 1..Len(kinds) |->
        IF kinds[i] < 0 THEN [kind |-> "err", bytes |-> <<>>]
        ELSE [kind |-> "data", bytes |-> Fill(i, kinds[i])]]

Scripts ==
    UNION {{ScriptOf(ks) : ks \in [1..n -> ItemKinds]} : n \in 0..MaxReads}

StreamCalls == {[NoInput EXCEPT !.op = "scan_stream", !.script = s] : s \in Scripts}

\* Payloads of 0 to 8193 bytes: a run of 1s followed by a run of 2s.
Payloads ==
    {BCat(Fill(1, a), Fill(2, b)) :
        a \in {0, 1, WindowSize, WindowSize + 1},
        b \in {0, WindowSize - 1, WindowSize}}

BytesCalls ==
    {[NoInput EXCEPT !.op = "scan_bytes", !.payload = b] : b \in Payloads}
    \cup {[NoInput EXCEPT !.op = "scan_string", !.payload = b] :
            b \in {<<>>, Fill(97, 1), BCat(Fill(97, WindowSize), Fill(98, 1))}}

\* A chunk of 2^32 + 5 bytes, in runs short enough to count.
BigChunk ==
    <<[b |-> 1, n |-> 2 ^ 30], [b |-> 2, n |-> 2 ^ 30], [b |-> 1, n |-> 2 ^ 30],
      [b |-> 2, n |-> 2 ^ 30], [b |-> 3, n |-> 5]>>

\* What slice::chunks yields: chunks of one size, the last one maybe shorter.
ChunkLists ==
    {<<>>,
     <<Fill(1, 5)>>,
     <<Fill(1, 2), Fill(2, 2), Fill(3, 1)>>,
     <<BigChunk>>,
     <<BigChunk, Fill(4, 3)>>}

ChunkCalls == {[NoInput EXCEPT !.op = "scan_chunks", !.chunks = cs] : cs \in ChunkLists}

\* "stream: OK\0"
RespClean == <<115, 116, 114, 101, 97, 109, 58, 32, 79, 75, 0>>
\* "stream: Win.Test.EICAR_HDB-1 FOUND\0"
RespFound ==
    <<115, 116, 114, 101, 97, 109, 58, 32, 87, 105, 110, 46, 84, 101, 115, 116, 46,
      69, 73, 67, 65, 82, 95, 72, 68, 66, 45, 49, 32, 70, 79, 85, 78, 68, 0>>
\* "stream: Eicar FOUND\0stream: OK\0"
RespTwo ==
    <<115, 116, 114, 101, 97, 109, 58, 32, 69, 105, 99, 97, 114, 32, 70, 79, 85, 78,
      68, 0, 115, 116, 114, 101, 97, 109, 58, 32, 79, 75, 0>>
\* "INSTREAM size limit exceeded. ERROR\0"
RespError ==
    <<73, 78, 83, 84, 82, 69, 65, 77, 32, 115, 105, 122, 101, 32, 108, 105, 109, 105,
      116, 32, 101, 120, 99, 101, 101, 100, 101, 100, 46, 32, 69, 82, 82, 79, 82, 0>>
\* "\0\0"
RespNuls == <<0, 0>>
\* "ClamAV 0.100.0/24802/Wed Aug  1 08:43:37 2018\0"
RespVersion ==
    <<67, 108, 97, 109, 65, 86, 32, 48, 46, 49, 48, 48, 46, 48, 47, 50, 52, 56, 48,
      50, 47, 87, 101, 100, 32, 65, 117, 103, 32, 32, 49, 32, 48, 56, 58, 52, 51, 58,
      51, 55, 32, 50, 48, 49, 56, 0>>
\* The statistics block of the tests in response.rs.
RespStats ==
    <<80, 79, 79, 76, 83, 58, 32, 49, 10, 10, 83, 84, 65, 84, 69, 58, 32, 86, 65, 76,
      73, 68, 32, 80, 82, 73, 77, 65, 82, 89, 10, 84, 72, 82, 69, 65, 68, 83, 58, 32,
      108, 105, 118, 101, 32, 49, 32, 32, 105, 100, 108, 101, 32, 48, 32, 109, 97,
      120, 32, 49, 50, 32, 105, 100, 108, 101, 45, 116, 105, 109, 101, 111, 117, 116,
      32, 51, 48, 10, 81, 85, 69, 85, 69, 58, 32, 48, 32, 105, 116, 101, 109, 115, 10,
      9, 83, 84, 65, 84, 83, 32, 48, 46, 48, 48, 48, 51, 57, 52, 10, 10, 77, 69, 77,
      83, 84, 65, 84, 83, 58, 32, 104, 101, 97, 112, 32, 57, 46, 48, 56, 50, 77, 32,
      109, 109, 97, 112, 32, 48, 46, 48, 48, 48, 77, 32, 117, 115, 101, 100, 32, 54,
      46, 57, 48, 50, 77, 32, 102, 114, 101, 101, 32, 50, 46, 49, 56, 52, 77, 32, 114,
      101, 108, 101, 97, 115, 97, 98, 108, 101, 32, 48, 46, 49, 50, 57, 77, 32, 112,
      111, 111, 108, 115, 32, 49, 32, 112, 111, 111, 108, 115, 95, 117, 115, 101, 100,
      32, 53, 54, 53, 46, 57, 55, 57, 77, 32, 112, 111, 111, 108, 115, 95, 116, 111,
      116, 97, 108, 32, 53, 54, 53, 46, 57, 57, 57, 77, 10, 69, 78, 68, 0>>

Responses ==
    {<<>>, RespClean, RespFound, RespTwo, RespError, RespNuls, Pong,
     Pong \o <<NulChar>>, RespVersion, RespStats}

\* One caller, every operation, every input.
FullWorkload ==
    [callers |-> {1},
     calls |-> SimpleCalls \cup StreamCalls \cup BytesCalls \cup ChunkCalls,
     responses |-> Responses]

\* Two callers at once, each with one simple command and one upload of each kind.
SharedWorkload ==
    [callers |-> {1, 2},
     calls |-> {[NoInput EXCEPT !.op = "ping", !.cmd = CmdPing],
                [NoInput EXCEPT !.op = "scan_stream", !.script = ScriptOf(<<3>>)],
                [NoInput EXCEPT !.op = "scan_bytes", !.payload = Fill(1, 1)]},
     responses |-> {RespClean, Pong}]

NoWorkload == [callers |-> {}, calls |-> {}, responses |-> {}]

NoText == [raw |-> <<>>, path |-> None, sig |-> None]

\* ClamClient::new("127.0.0.1", 3310) / new_with_timeout(.., 60)
Clients ==
    {[socket |-> "127.0.0.1:3310", timeout |-> None],
     [socket |-> "127.0.0.1:3310", timeout |-> Some(60)]}

Callers == {1, 2}

InitWith(w) ==
    /\ client \in Clients
    /\ workload = w
    /\ faults = MaxFaults
    /\ proc = [c \in Callers |-> IdleProc]
    /\ conns = [k \in ConnIds |-> FreeConn]
    /\ text = NoText
    /\ parsed = None

Init == InitWith(FullWorkload)

InitShared == InitWith(SharedWorkload)

Next ==
    \E c \in Callers :
        \/ Call(c)
        \/ Connect(c)
        \/ CommandWrite(c)
        \/ CommandRead(c)
        \/ UploadInit(c)
        \/ StreamRead(c)
        \/ StreamLen(c)
        \/ StreamBuffer(c)
        \/ ChunkLen(c)
        \/ ChunkData(c)
        \/ UploadTerm(c)
        \/ UploadRead(c)
        \/ PeerSend(c)
        \/ PeerClose(c)

\* One caller at a time.
Spec == Init /\ [][Next]_vars

\* Two callers, interleaved step by step.
SpecShared == InitShared /\ [][Next]_vars

\* ------------------------------------------------------------ parser inputs

\* The texts made of at most n of the given pieces.
RECURSIVE Strs(_, _)
Strs(pieces, n) ==
    IF n = 0 THEN {<<>>}
    ELSE LET shorter == Strs(pieces, n - 1)
         IN  shorter \cup {s \o p : s \in shorter, p \in pieces}

\* "a", ":", " ", "FOUND", "a a"
PathPieces == {<<97>>, <<ColonChar>>, <<32>>, FoundMarker, <<97, 32, 97>>}

\* "a", " ", "-", ".", "FOUND", "OK", "a a"
SigPieces ==
    {<<97>>, <<32>>, <<DashChar>>, <<DotChar>>, FoundMarker, OkSuffix, <<97, 32, 97>>}

\* "a", ":", " ", "FOUND", "OK", NUL
ResponsePieces == {<<97>>, <<ColonChar>>, <<32>>, FoundMarker, OkSuffix, <<NulChar>>}

\* The scan record "<path>: <signature-name> FOUND" followed by NUL.
FoundRecord(path, sig) ==
    path \o <<ColonChar, 32>> \o sig \o <<32>> \o FoundMarker \o <<NulChar>>

\* The scan records of every non-empty path and signature name.
RecordTexts ==
    {[raw |-> FoundRecord(path, sig), path |-> Some(path), sig |-> Some(sig)] :
        path \in Strs(PathPieces, MaxFieldPieces) \ {<<>>},
        sig \in Strs(SigPieces, MaxFieldPieces) \ {<<>>}}

\* Response bodies of any shape.
ResponseTexts ==
    {[NoText EXCEPT !.raw = raw] : raw \in Strs(ResponsePieces, MaxPieces)}

\* A response text waits to be parsed.
InitParse ==
    /\ client \in Clients
    /\ workload = NoWorkload
    /\ faults = 0
    /\ proc = [c \in Callers |-> IdleProc]
    /\ conns = [k \in ConnIds |-> FreeConn]
    /\ text \in RecordTexts \cup ResponseTexts
    /\ parsed = None

\* ScanResult::parse(&result)
Parse ==
    /\ parsed = None
    /\ parsed' = Some(ScanResultParse(text.raw))
    /\ UNCHANGED <<client, workload, faults, proc, conns, text>>

\* The response parser on its own.
SpecParse == InitParse /\ [][Parse]_vars

\* A signature name made of "a", "b", "." and "-" waits to be decomposed.
InitSignature ==
    /\ client \in Clients
    /\ workload = NoWorkload
    /\ faults = 0
    /\ proc = [c \in Callers |-> IdleProc]
    /\ conns = [k \in ConnIds |-> FreeConn]
    /\ text \in {[NoText EXCEPT !.raw = x] : x \in Strs({<<97>>, <<98>>, <<DotChar>>, <<DashChar>>}, MaxNameLen)}
    /\ parsed = None

\* Signature::from(&virus)
ParseSignature ==
    /\ parsed = None
    /\ parsed' = Some(SignatureFrom(text.raw))
    /\ UNCHANGED <<client, workload, faults, proc, conns, text>>

\* The signature decomposer on its own.
SpecSignature == InitSignature /\ [][ParseSignature]_vars

\* ------------------------------------------------------ statistics inputs

\* The steps of parse_stats that bind the fourteen fields of Stats, in the
\* order of the fields; the other two steps skip text.
FieldSteps == <<1, 2, 3, 4, 5, 6, 7, 9, 10, 11, 12, 13, 15, 16>>

\* The fields of Stats that are u64: pools, threads_live, threads_idle,
\* threads_max, threads_idle_timeout_secs, queue.
NumericSlots == {1, 3, 4, 5, 6, 7}

\* The block of the tests: its fourteen field values, the pool count of its
\* MEMSTATS line, and no anchor left out.
BaseBlock ==
    [vals |-> <<<<49>>,
               <<86, 65, 76, 73, 68, 32, 80, 82, 73, 77, 65, 82, 89>>,
               <<49>>,
               <<48>>,
               <<49, 50>>,
               <<51, 48>>,
               <<48>>,
               <<57, 46, 48, 56, 50, 77>>,
               <<48, 46, 48, 48, 48, 77>>,
               <<54, 46, 57, 48, 50, 77>>,
               <<50, 46, 49, 56, 52, 77>>,
               <<48, 46, 49, 50, 57, 77>>,
               <<53, 54, 53, 46, 57, 55, 57, 77>>,
               <<53, 54, 53, 46, 57, 57, 57, 77>>>>,
     pool |-> <<49>>,
     drop |-> 0]

\* The blocks that differ from the block of the tests in at most n places: a
\* numeric field (set to "0", "12", "18446744073709551615", "18446744073709551616", "x", "", "-1", "+5"),
\* a string field (set to "", "x", "a mmap", "a used", "a pools_total", "VALID\nPRIMARY"),
\* the pool count of the MEMSTATS line (set to "x"), or an anchor left out
\* (17 stands for the leading "POOLS: ").
RECURSIVE Blocks(_)
Blocks(n) ==
    IF n = 0 THEN {BaseBlock}
    ELSE LET less == Blocks(n - 1)
         IN  less
             \cup {[b EXCEPT !.vals[i] = v] :
                      b \in less, i \in NumericSlots,
                      v \in {<<48>>,
                             <<49, 50>>,
                             <<49, 56, 52, 52, 54, 55, 52, 52, 48, 55, 51, 55, 48, 57, 53, 53, 49, 54, 49, 53>>,
                             <<49, 56, 52, 52, 54, 55, 52, 52, 48, 55, 51, 55, 48, 57, 53, 53, 49, 54, 49, 54>>,
                             <<120>>,
                             <<>>,
                             <<45, 49>>,
                             <<43, 53>>}}
             \cup {[b EXCEPT !.vals[i] = v] :
                      b \in less, i \in (1..14) \ NumericSlots,
                      v \in {<<>>,
                             <<120>>,
                             <<97, 32, 109, 109, 97, 112>>,
                             <<97, 32, 117, 115, 101, 100>>,
                             <<97, 32, 112, 111, 111, 108, 115, 95, 116, 111, 116, 97, 108>>,
                             <<86, 65, 76, 73, 68, 10, 80, 82, 73, 77, 65, 82, 89>>}}
             \cup {[b EXCEPT !.pool = v] : b \in less, v \in {<<120>>}}
             \cup {[b EXCEPT !.drop = j] : b \in less, j \in 1..17}

\* The statistics block in the daemon's layout, from step j on: before each
\* anchor its field, but "\tSTATS 0.000394\n\nMEMSTATS: " before "heap " and the
\* pool count before "pools_used ".
RECURSIVE RenderFrom(_, _)
RenderFrom(b, j) ==
    IF j > Len(StatsSteps) THEN <<69, 78, 68, 0>>
    ELSE (IF j = 8 THEN <<9, 83, 84, 65, 84, 83, 32, 48, 46, 48, 48, 48, 51, 57, 52, 10, 10, 77, 69, 77, 83, 84, 65, 84, 83, 58, 32>>
          ELSE IF j = 14 THEN b.pool \o <<32>>
          ELSE b.vals[First({k \in 1..14 : FieldSteps[k] = j})])
         \o (IF b.drop = j THEN <<>> ELSE StatsSteps[j].anchor)
         \o RenderFrom(b, j + 1)

\* The statistics block in the daemon's layout.
Render(b) == (IF b.drop = 17 THEN <<>> ELSE StatsTag) \o RenderFrom(b, 1)

\* A statistics block waits to be parsed.
InitStats ==
    /\ client \in Clients
    /\ workload = NoWorkload
    /\ faults = 0
    /\ proc = [c \in Callers |-> IdleProc]
    /\ conns = [k \in ConnIds |-> FreeConn]
    /\ text \in {[raw |-> Render(b), block |-> b] : b \in Blocks(MaxEdits)}
    /\ parsed = None

\* Stats::parse(&resp)
ParseStatsText ==
    /\ parsed = None
    /\ parsed' = Some(StatsParse(text.raw))
    /\ UNCHANGED <<client, workload, faults, proc, conns, text>>

\* The statistics parser on its own.
SpecStats == InitStats /\ [][ParseStatsText]_vars

\* ------------------------------------------------------------ version inputs

\* The texts of one to n of the given fields, joined by '/'.
RECURSIVE VersionTexts(_, _)
VersionTexts(fields, n) ==
    IF n = 1 THEN fields
    ELSE LET shorter == VersionTexts(fields, n - 1)
         IN  shorter \cup {s \o <<SlashChar>> \o f : s \in shorter, f \in fields}

\* The fields are those of VERSION_STRING in the tests of response.rs,
\* "ClamAV 0.100.0", "24802" and "Wed Aug  1 08:43:37 2018", and beside them
\* "", "+05", u64::MAX + 1 and the same date as a Thursday; a text ends with no,
\* one or two NULs.
InitVersion ==
    /\ client \in Clients
    /\ workload = NoWorkload
    /\ faults = 0
    /\ proc = [c \in Callers |-> IdleProc]
    /\ conns = [k \in ConnIds |-> FreeConn]
    /\ text \in {[NoText EXCEPT !.raw = t \o z] :
                    t \in VersionTexts({SubSeq(RespVersion, 1, 14),
                                        SubSeq(RespVersion, 16, 20),
                                        SubSeq(RespVersion, 22, 45),
                                        <<>>,
                                        <<43, 48, 53>>,
                                        <<49, 56, 52, 52, 54, 55, 52, 52, 48, 55,
                                          51, 55, 48, 57, 53, 53, 49, 54, 49, 54>>,
                                        <<84, 104, 117>> \o SubSeq(RespVersion, 25, 45)},
                                       MaxVersionFields),
                    z \in {<<>>, <<NulChar>>, <<NulChar, NulChar>>}}
    /\ parsed = None

\* Version::parse(&resp)
ParseVersion ==
    /\ parsed = None
    /\ parsed' = Some(VersionParse(text.raw))
    /\ UNCHANGED <<client, workload, faults, proc, conns, text>>

\* The version parser on its own.
SpecVersion == InitVersion /\ [][ParseVersion]_vars

\* ------------------------------------------------------------------- claims

\* The 4-byte big-endian encoding of a length below 2^31.
BigEndian4(n) ==
    FromBytes(<<n \div (2 ^ 24), (n \div (2 ^ 16)) % 256, (n \div 256) % 256, n % 256>>)

\* A chunk frame: the length of the content, then the content.
Frame(data) == BCat(BigEndian4(BLen(data)), data)

\* The frames of a sequence of chunks, one after the other.
RECURSIVE Frames(_)
Frames(ds) == IF ds = <<>> THEN <<>> ELSE BCat(Frame(ds[1]), Frames(Tail(ds)))

\* The terminating zero-length frame.
Terminator == Fill(0, 4)

\* The reads of the source so far are k >= 1 full windows and then end-of-file.
FullWindowsThenEof(reads) ==
    /\ Len(reads) >= 2
    /\ reads[Len(reads)] = <<>>
    /\ \A i \in 1..(Len(reads) - 1) : BLen(reads[i]) = WindowSize

\* C1: scan_stream on a source that yields exactly k >= 1 full 4096-byte
\* windows and then end-of-file has handed to the connection, by the time it
\* reads the response, the zINSTREAM command, k frames of length 4096 and one
\* zero-length terminator frame, and nothing else.
C1_FullWindowsFrames ==
    \A c \in Callers :
        (/\ proc[c].op = "scan_stream"
         /\ proc[c].pc = "upload_read"
         /\ FullWindowsThenEof(proc[c].reads))
        => proc[c].written =
              BCat(FromBytes(CmdInstream),
                   BCat(Frames(SubSeq(proc[c].reads, 1, Len(proc[c].reads) - 1)),
                        Terminator))

\* C2: in scan_stream, whenever the frames of all reads made so far have been
\* written, the connection has been handed the command and, for each read in
\* order, the big-endian length n of the read followed by exactly the n bytes
\* that read returned.
C2_FramePerRead ==
    \A c \in Callers :
        (/\ proc[c].op = "scan_stream"
         /\ proc[c].pc \in {"stream_read", "upload_term"})
        => proc[c].written =
              BCat(FromBytes(CmdInstream), Frames(proc[c].reads))

\* C3: an upload that has met a chunk longer than 2^32 - 1 bytes has ended
\* with InvalidDataLength, and so has not gone on to send the length of that
\* chunk truncated to 32 bits.
C3_OversizedRejected ==
    \A c \in Callers :
        proc[c].over =>
            proc[c].pc = "done" /\ proc[c].result.kind = "InvalidDataLength"

\* C4: an operation during which an I/O failure occurred (a refused connect,
\* a failed write, a failed read of the response or of the byte source) does
\* not return a verdict or a response text as success.
C4_NoSuccessAfterIoFailure ==
    \A c \in Callers :
        (proc[c].pc = "done" /\ proc[c].failed /\ proc[c].op # "ping")
        => proc[c].result.kind # "Ok"

\* The caller c has read the response of its operation, or failed to.
HasRead(c) == proc[c].conn # 0 /\ c \in conns[proc[c].conn].readers

\* The n-byte payload cut at every 4096th byte: piece i holds the bytes from
\* (i - 1) * 4096 up to, not including, i * 4096 or n.
Windows(payload) ==
    LET n == BLen(payload)
    IN  [i \in 1..((n + WindowSize - 1) \div WindowSize) |->
            BTake(BDrop(payload, (i - 1) * WindowSize),
                  Min(WindowSize, n - (i - 1) * WindowSize))]

\* C5: once scan_bytes or scan_string has written its terminator, and from
\* then on, the bytes it has handed to the connection are the zINSTREAM
\* command, then one frame for each of the ceil(n / 4096) windows of the
\* payload in order, each with its own length in big-endian, then one
\* zero-length frame; for an empty payload the command and the terminator.
C5_BytesFraming ==
    \A c \in Callers :
        (/\ proc[c].op \in {"scan_bytes", "scan_string"}
         /\ proc[c].pc = "upload_read" \/ HasRead(c))
        => proc[c].written =
              BCat(FromBytes(CmdInstream),
                   BCat(Frames(Windows(proc[c].payload)), Terminator))

\* scan_bytes on a payload of 8193 bytes has sent its frames and the terminator.
C5_Witness ==
    \E c \in Callers :
        /\ proc[c].op = "scan_bytes"
        /\ proc[c].pc = "upload_read"
        /\ BLen(proc[c].payload) = 2 * WindowSize + 1
        /\ Len(Windows(proc[c].payload)) = 3

\* C6: an upload operation that has read a response wrote four zero bytes
\* last before reading, and returns InvalidData carrying the raw response
\* when the response parses to no verdict, and the first verdict otherwise.
C6_FirstVerdictOrInvalidData ==
    \A c \in Callers :
        (/\ proc[c].op \in UploadOps
         /\ proc[c].pc = "done"
         /\ proc[c].response # None)
        => LET raw == proc[c].response[1]
               verdicts == ScanResultParse(raw)
               last == proc[c].written[Len(proc[c].written)]
           IN  /\ last.b = 0 /\ last.n >= 4
               /\ proc[c].result =
                     IF Len(verdicts) = 0 THEN Err("InvalidData", raw)
                     ELSE Ok(verdicts[1])

\* An upload has returned the first of the two verdicts of the response.
C6_Witness ==
    \E c \in Callers :
        /\ proc[c].op \in UploadOps
        /\ proc[c].pc = "done"
        /\ proc[c].response = Some(RespTwo)
        /\ Len(ScanResultParse(RespTwo)) = 2
        /\ ScanResultParse(RespTwo)[1] # ScanResultParse(RespTwo)[2]
        /\ proc[c].result = Ok(ScanResultParse(RespTwo)[1])

\* C7: an operation opens at most one connection; the connection is new when
\* the operation gets it (nothing was written to it or read from it); every
\* open connection belongs to an operation that is still running; and when an
\* operation has returned, whatever its result, its connection is closed.
C7_OneFreshConnectionClosedOnReturn ==
    /\ \A c \in Callers :
          /\ proc[c].opened <= 1
          /\ proc[c].pc \in {"command_write", "upload_init"}
                => /\ conns[proc[c].conn].state = "open"
                   /\ conns[proc[c].conn].wire = <<>>
                   /\ conns[proc[c].conn].sent = <<>>
                   /\ conns[proc[c].conn].writers = {}
                   /\ conns[proc[c].conn].readers = {}
          /\ proc[c].pc \in {"idle", "done"}
                => \A k \in ConnIds : conns[k].owner = c => conns[k].state # "open"
    /\ \A k \in ConnIds :
          conns[k].state = "open"
             => /\ conns[k].owner \in Callers
                /\ proc[conns[k].owner].conn = k
                /\ proc[conns[k].owner].pc \notin {"idle", "done"}

\* An operation has returned with a write failure after opening a connection.
C7_Witness ==
    \E c \in Callers :
        /\ proc[c].pc = "done"
        /\ proc[c].result.kind = "CommandError"
        /\ proc[c].opened = 1
        /\ conns[proc[c].conn].state = "closed"
        /\ \A k \in ConnIds : conns[k].state # "open"

\* What C8 says of a state: each connection was written and read by the
\* operation that opened it only, and the bytes handed to it are the bytes
\* that operation has written.
OwnConnectionOnly ==
    /\ \A k \in ConnIds :
          /\ conns[k].writers \subseteq {conns[k].owner}
          /\ conns[k].readers \subseteq {conns[k].owner}
    /\ \A c \in Callers :
          proc[c].conn # 0
             => /\ conns[proc[c].conn].owner = c
                /\ conns[proc[c].conn].sent = proc[c].written

\* C8: with two callers running operations on one client at once, in every
\* interleaving each connection is written and read only by the operation
\* that opened it and carries exactly that operation's bytes, and no step
\* changes the client's address or timeout.
C8_ConcurrentIsolation ==
    []OwnConnectionOnly /\ [][client' = client]_vars

\* Two operations are running at once, each with bytes on its own connection.
C8_Witness ==
    \E c, d \in Callers :
        /\ c # d
        /\ proc[c].conn # 0 /\ proc[d].conn # 0
        /\ conns[proc[c].conn].state = "open"
        /\ conns[proc[d].conn].state = "open"
        /\ proc[c].written # <<>>
        /\ proc[d].written # <<>>
        /\ proc[c].written # proc[d].written

\* C9: parsing the scan record "<path>: <signature-name> FOUND" NUL of any
\* non-empty, NUL-free path and signature name gives exactly one result,
\* Found(path, s), with the path of the record and with s the parse of the
\* signature name (so s.raw is the signature name).
C9_FoundRecordRoundTrip ==
    (text.path # None /\ parsed # None)
    => /\ parsed[1] = <<ScanFound(text.path[1], SignatureFrom(text.sig[1]))>>
       /\ parsed[1][1].sig.raw = text.sig[1]

\* The non-empty NUL-delimited segments of a response.
SegmentsOf(raw) == FilterNonEmpty(Split(raw, NulChar))

\* The first whitespace token of a segment without the colons at its end.
PathOf(seg) ==
    LET t == SplitWhitespace(seg)[1]
        ends == {k \in 0..Len(t) : k = 0 \/ t[k] # ColonChar}
        n == CHOOSE k \in ends : \A j \in ends : j <= k
    IN  SubSeq(t, 1, n)

\* The tokens of a segment from the second one up to, not including, token m.
TokensBefore(seg, m) == Collect(SubSeq(SplitWhitespace(seg), 2, m - 1))

\* The signature text of a segment: the FOUND marker is the first token after
\* the path that starts with "FOUND"; without such a token, every token after
\* the path counts.
SigBeforeMarkerToken(seg) ==
    LET ts == SplitWhitespace(seg)
        marks == {j \in 2..Len(ts) : StartsWith(ts[j], FoundMarker)}
    IN  TokensBefore(seg, IF marks = {} THEN Len(ts) + 1 ELSE First(marks))

\* The result the rules of C10 give for one segment and one signature text.
Classified(seg, sigtext) ==
    IF EndsWith(seg, OkSuffix) THEN ScanOk
    ELSE IF Contains(seg, FoundMarker)
    THEN ScanFound(PathOf(seg), SignatureFrom(sigtext))
    ELSE ScanError(seg)

\* C10: the parser returns one result for each non-empty segment, in order,
\* and every segment is classified by the three rules in
\* their order (ends with "OK": Clean; else contains "FOUND": Found; else
\* Error with the segment), the path is the first token without its trailing
\* colons, and the signature text is made of the tokens after the path up
\* to the first of them that starts with "FOUND", or to the end of the segment
\* when none does.
C10_ClassifiedByPriority ==
    parsed # None
    => LET segs == SegmentsOf(text.raw)
       IN  /\ Len(parsed[1]) = Len(segs)
           /\ \A i \in 1..Len(segs) :
                 parsed[1][i] = Classified(segs[i], SigBeforeMarkerToken(segs[i]))

\* A parsed response with a segment that ends with "OK" and contains "FOUND",
\* and another one that is an Error.
C10_Witness ==
    /\ parsed # None
    /\ \E i, j \in 1..Len(parsed[1]) :
          /\ EndsWith(SegmentsOf(text.raw)[i], OkSuffix)
          /\ Contains(SegmentsOf(text.raw)[i], FoundMarker)
          /\ parsed[1][i] = ScanOk
          /\ parsed[1][j].tag = "Error"

\* The positions at which a NUL-free run of the text begins.
RunStarts(raw) ==
    {i \in 1..Len(raw) : raw[i] # NulChar /\ (i = 1 \/ raw[i - 1] = NulChar)}

\* The maximal NUL-free run of the text that begins at position i.
RunAt(raw, i) ==
    SubSeq(raw, i, First({j \in i..Len(raw) : j = Len(raw) \/ raw[j + 1] = NulChar}))

\* The k-th maximal NUL-free run of the text, counted from the left.
Run(raw, k) ==
    RunAt(raw, CHOOSE i \in RunStarts(raw) :
                   Cardinality({j \in RunStarts(raw) : j <= i}) = k)

\* C11: for every text the parser returns a list with one result for each
\* maximal NUL-free run of the text, the k-th result being that of the k-th
\* run from the left; no result is an Error with the empty message, and a
\* text without such a run (empty, or NULs only) gives the empty list.
C11_OneResultPerSegment ==
    parsed # None
    => /\ Len(parsed[1]) = Cardinality(RunStarts(text.raw))
       /\ \A k \in 1..Len(parsed[1]) :
             /\ parsed[1][k] = ClassifySegment(Run(text.raw, k))
             /\ parsed[1][k] # ScanError(<<>>)
       /\ (\A i \in 1..Len(text.raw) : text.raw[i] = NulChar) => parsed[1] = <<>>

\* A parsed text with two NULs in a row between two segments that give
\* different results.
C11_Witness ==
    /\ parsed # None
    /\ Len(parsed[1]) = 2
    /\ parsed[1][1] # parsed[1][2]
    /\ \E i \in 1..(Len(text.raw) - 1) :
          text.raw[i] = NulChar /\ text.raw[i + 1] = NulChar

\* The five decomposed fields of a signature.
SignatureFields == {"platform", "category", "virus", "signum", "sigversion"}

\* C12: a signature name without '.' and without '-' (the empty name too) is
\* decomposed into five absent fields, and raw is the name.
C12_NoStructureAllAbsent ==
    (/\ parsed # None
     /\ ~Contains(text.raw, <<DotChar>>)
     /\ ~Contains(text.raw, <<DashChar>>))
    => /\ \A f \in SignatureFields : parsed[1][f] = None
       /\ parsed[1].raw = text.raw

\* The text cut at its first character c: the part before it and, when c
\* occurs, the part after it.
CutAt(s, c) ==
    LET i == FindChar(s, c, 1)
    IN  IF i = 0 THEN <<s>> ELSE <<SubSeq(s, 1, i - 1), SubSeq(s, i + 1, Len(s))>>

\* The second part of a cut, cut again: nothing when there is no second part.
CutAgain(parts, c) == IF Len(parts) < 2 THEN <<>> ELSE CutAt(parts[2], c)

\* The fields the grammar of C13 gives for the name x, but for sigversion.
GrammarHolds(x, sig) ==
    LET xs == CutAt(x, DashChar)
        name == CutAt(xs[1], DotChar)
    IN  /\ sig.raw = x
        /\ sig.platform = Some(name[1])
        /\ sig.category = Get(CutAgain(name, DotChar), 0)
        /\ sig.virus = Get(CutAgain(name, DotChar), 1)
        /\ sig.signum = Get(CutAgain(xs, DashChar), 0)

\* C13, as stated: raw is the input, the fields follow the grammar, and each
\* of signum and sigversion is absent exactly when the input has no '-'.
C13_GrammarBothVersionFields ==
    parsed # None
    => /\ GrammarHolds(text.raw, parsed[1])
       /\ parsed[1].signum = None <=> ~Contains(text.raw, <<DashChar>>)
       /\ parsed[1].sigversion = None <=> ~Contains(text.raw, <<DashChar>>)

\* C13, amended: raw is the input; the input is cut at its first '-' into
\* name part and version part; the name part is cut at its first two '.' into
\* platform, category and virus (the third piece keeps further dots, a missing
\* piece is absent); signum is the version part up to its first '-' and is
\* absent exactly when the input has no '-'; sigversion is what follows that
\* '-' (further dashes kept) and is absent exactly when the input has fewer
\* than two '-'.
C13_Grammar ==
    parsed # None
    => /\ GrammarHolds(text.raw, parsed[1])
       /\ parsed[1].sigversion = Get(CutAgain(CutAt(text.raw, DashChar), DashChar), 1)
       /\ parsed[1].signum = None <=> ~Contains(text.raw, <<DashChar>>)
       /\ parsed[1].sigversion = None
             <=> Len(SelectSeq(text.raw, LAMBDA ch : ch = DashChar)) < 2

\* A decomposed name with all five fields, a '.' kept in virus and a '-' kept
\* in sigversion.
C13_Witness ==
    /\ parsed # None
    /\ \A f \in SignatureFields : parsed[1][f] # None
    /\ Contains(parsed[1].virus[1], <<DotChar>>)
    /\ Contains(parsed[1].sigversion[1], <<DashChar>>)

\* The texts between the anchors of the list, sought one after the other
\* from position `from` of the text on; ok tells whether all were found.
RECURSIVE Slices(_, _, _)
Slices(raw, from, anchors) ==
    IF anchors = <<>> THEN [ok |-> TRUE, out |-> <<>>]
    ELSE LET at == FindSub(raw, anchors[1], from)
             rest == Slices(raw, at + Len(anchors[1]), Tail(anchors))
         IN  IF at = 0 THEN [ok |-> FALSE, out |-> <<>>]
             ELSE [ok |-> rest.ok, out |-> <<SubSeq(raw, from, at - 1)>> \o rest.out]

\* The sixteen anchors that follow the leading "POOLS: ".
Anchors == [j \in 1..Len(StatsSteps) |-> StatsSteps[j].anchor]

\* The anchors of a statistics block and the texts between them.
Anchored(raw) ==
    IF StartsWith(raw, StatsTag) THEN Slices(raw, Len(StatsTag) + 1, Anchors)
    ELSE [ok |-> FALSE, out |-> <<>>]

\* The names of the fields of Stats, in their order.
StatsNames ==
    <<"pools", "state", "threads_live", "threads_idle", "threads_max",
      "threads_idle_timeout_secs", "queue", "mem_heap", "mem_mmap", "mem_used",
      "mem_free", "mem_releasable", "pools_used", "pools_total">>

\* The result is the error that carries the input.
IsMalformed(r) == r = Err("InvalidData", text.raw)

\* The result is a record with all fourteen fields.
IsComplete(r) == r.kind = "Ok" /\ DOMAIN r.val = {StatsNames[k] : k \in 1..14}

\* What C14 says of any text but for the count of the numeric fields: the
\* result is complete or the error, and it is the error when an anchor is
\* missing or one of the six u64 fields does not convert.
AtomicStats ==
    LET a == Anchored(text.raw)
    IN  /\ IsMalformed(parsed[1]) \/ IsComplete(parsed[1])
        /\ ~a.ok => IsMalformed(parsed[1])
        /\ (a.ok /\ \E k \in NumericSlots : ParseU64(a.out[FieldSteps[k]]) = None)
              => IsMalformed(parsed[1])

\* C14, as stated: parsing is atomic, and there are seven numbers whose
\* failed conversion gives the error: those of the six u64 fields and the
\* seventh number of the daemon's layout, the pool count of the MEMSTATS line.
C14_AtomicSevenNumbers ==
    parsed # None
    => /\ AtomicStats
       /\ (Anchored(text.raw).ok /\ ParseU64(text.block.pool) = None)
             => IsMalformed(parsed[1])

\* C14, amended: for every text the result is either a Stats record with all
\* fourteen fields or InvalidData carrying the text; it is the error when an
\* anchor of the fixed sequence is missing in order (the newline after
\* pools_total too) or when one of the six numeric fields (pools, threads_live,
\* threads_idle, threads_max, threads_idle_timeout_secs, queue) does not
\* convert to a u64; otherwise it is the record.
C14_AtomicSixNumbers ==
    parsed # None
    => /\ AtomicStats
       /\ (/\ Anchored(text.raw).ok
           /\ \A k \in NumericSlots :
                 ParseU64(Anchored(text.raw).out[FieldSteps[k]]) # None)
             => IsComplete(parsed[1])

\* The block of the tests without the newline after pools_total has been
\* refused.
C14_Witness ==
    /\ parsed # None
    /\ text.block = [BaseBlock EXCEPT !.drop = Len(StatsSteps)]
    /\ ~Anchored(text.raw).ok
    /\ IsMalformed(parsed[1])

\* The block is in the daemon's layout: no anchor is left out, and the six
\* numeric fields and the pool count are u64 values in decimal.
WellFormed(b) ==
    /\ b.drop = 0
    /\ \A k \in NumericSlots : ParseU64(b.vals[k]) = Some(b.vals[k])
    /\ ParseU64(b.pool) = Some(b.pool)

\* Every field of the result is the value the block was rendered from.
Recovered(r, b) ==
    /\ IsComplete(r)
    /\ \A k \in 1..14 : r.val[StatsNames[k]] = b.vals[k]

\* C15, as stated: a well-formed block whose strings do not contain the
\* anchor that follows them parses to the record of the fourteen values it
\* was rendered from, each in its own field.
C15_RoundTripNoAnchorInside ==
    (/\ parsed # None
     /\ WellFormed(text.block)
     /\ \A k \in (1..14) \ NumericSlots :
           ~Contains(text.block.vals[k], Anchors[FieldSteps[k]]))
    => Recovered(parsed[1], text.block)

\* C15, amended: a well-formed block in which the anchor that follows a
\* string does not occur in the string followed by that anchor before the
\* end of the string (so the string neither contains the anchor nor ends with
\* the beginning of it) parses to the record of the fourteen values it was
\* rendered from, each in its own field.
C15_RoundTrip ==
    (/\ parsed # None
     /\ WellFormed(text.block)
     /\ \A k \in (1..14) \ NumericSlots :
           LET v == text.block.vals[k]
               anchor == Anchors[FieldSteps[k]]
           IN  FindSub(v \o anchor, anchor, 1) = Len(v) + 1)
    => Recovered(parsed[1], text.block)

\* A block with the greatest u64 in a numeric field has been parsed and
\* recovered.
C15_Witness ==
    /\ parsed # None
    /\ WellFormed(text.block)
    /\ \E k \in NumericSlots : text.block.vals[k] = U64MaxDigits
    /\ Recovered(parsed[1], text.block)

\* The text without its last character when that is a NUL.
StripOneNul(raw) ==
    IF raw # <<>> /\ raw[Len(raw)] = NulChar THEN SubSeq(raw, 1, Len(raw) - 1)
    ELSE raw

\* The text without the NULs at its end.
RECURSIVE StripNuls(_)
StripNuls(raw) ==
    IF raw # <<>> /\ raw[Len(raw)] = NulChar THEN StripNuls(StripOneNul(raw))
    ELSE raw

\* The number a short run of digits, with or without a '+' before it, denotes.
NumberOf(f) == DigitsValue(IF f # <<>> /\ f[1] = 43 THEN Tail(f) ELSE f)

\* What the version parser owes for the stripped text s: f0 is s up to its
\* first '/', and fs are the two parts of the rest around its first '/'.
VersionHolds(s, f0, fs, r) ==
    IF Cardinality({i \in 1..Len(s) : s[i] = SlashChar}) # 2
    THEN r.kind = "InvalidData"
    ELSE IF ParseU64(fs[1]) = None THEN r.kind = "IntParseError"
    ELSE IF DateParse(fs[2]) = None THEN r.kind = "DateParseError"
    ELSE /\ r.kind = "Ok"
         /\ r.val.version_tag = f0
         /\ Len(fs[1]) <= 9 => DigitsValue(r.val.build_number) = NumberOf(fs[1])

VersionHoldsFor(s, r) ==
    VersionHolds(s, CutAt(s, SlashChar)[1],
                 CutAgain(CutAt(s, SlashChar), SlashChar), r)

\* C16, as stated: with one NUL taken off the end of the text, the parser
\* fails with InvalidData exactly when the text has not three '/'-delimited
\* fields; with three, a field 1 that is no u64 gives IntParseError, else a
\* field 2 that is no date gives DateParseError, else the result carries field
\* 0 as version_tag and the value of field 1 as build_number.
C16_VersionOneNulStripped ==
    parsed # None => VersionHoldsFor(StripOneNul(text.raw), parsed[1])

\* C16, amended: the same with every NUL at the end of the text taken off.
C16_Version ==
    parsed # None => VersionHoldsFor(StripNuls(text.raw), parsed[1])

\* The version text of the tests was parsed, and so was a text of three fields
\* whose build number and date are both wrong.
C16_Witness ==
    /\ parsed # None
    /\ \/ text.raw = RespVersion /\ parsed[1].kind = "Ok"
       \/ /\ text.raw = SubSeq(RespVersion, 1, 15) \o <<SlashChar, 84, 104, 117>>
                            \o SubSeq(RespVersion, 25, 45)
          /\ parsed[1].kind = "IntParseError"

\* What a returned ping owes: a boolean, true exactly when nothing failed and
\* the response read was "PONG"; one connection, and on it, when the write
\* went through, "zPING" and a NUL and nothing else.
PingHolds(p) ==
    /\ p.result.kind = "Bool"
    /\ p.result.val = (~p.failed /\ p.response = Some(<<80, 79, 78, 71>>))
    /\ p.opened <= 1
    /\ p.response # None =>
          /\ conns[p.conn].owner \in Callers
          /\ conns[p.conn].writers \cup conns[p.conn].readers
                = {conns[p.conn].owner}
          /\ conns[p.conn].sent = FromBytes(<<122, 80, 73, 78, 71, 0>>)
          /\ conns[p.conn].wire = conns[p.conn].sent

\* C17: ping never returns an error; it sends "zPING\0" on a connection of its
\* own and returns true exactly when the exchange had no failure and the whole
\* response is "PONG"; every failure and every other response give false.
C17_PingTrueOnlyOnPong ==
    \A c \in Callers :
        proc[c].op = "ping" /\ proc[c].pc = "done" => PingHolds(proc[c])

\* A ping read "PONG" and returned true.
C17_Witness ==
    \E c \in Callers :
        /\ proc[c].op = "ping" /\ proc[c].pc = "done"
        /\ proc[c].result.val = TRUE
        /\ proc[c].response = Some(Pong)

\* The simple command of p, connected to the stream cn, is where its order
\* allows: it reads only with its command written whole; a failed write ends
\* it with CommandError and without a read; and it has returned without a
\* failure only with the stream closed by the daemon and all that was received
\* as its response.
InOrder(c, p, cn) ==
    /\ p.pc = "command_read" \/ c \in cn.readers =>
          cn.sent = FromBytes(p.cmd) /\ cn.wire = cn.sent
    /\ p.pc = "done" /\ BLen(p.written) = 0 =>
          /\ p.failed
          /\ c \notin cn.readers
          /\ p.response = None
          /\ p.op # "ping" => p.result.kind = "CommandError"
    /\ p.pc = "done" /\ ~p.failed =>
          cn.eof /\ p.response = Some(cn.recv) /\ c \in cn.readers
    /\ p.pc = "done" /\ c \in cn.readers /\ p.failed /\ p.op # "ping" =>
          p.result.kind = "CommandError" /\ p.response = None

\* C18: a simple command connects, writes its whole command, then reads: no
\* read before the command is written, no read after a failed write, which
\* returns CommandError; success only at the end of the stream and with all the
\* bytes received; and a read neither at the end of the stream nor failing
\* does not return.
C18_WriteThenReadToEof ==
    \A c \in Callers :
        /\ proc[c].op \in SimpleOps /\ proc[c].opened = 1 =>
              InOrder(c, proc[c], conns[proc[c].conn])
        /\ proc[c].op \in SimpleOps /\ proc[c].pc = "connect" =>
              ~ENABLED CommandWrite(c) /\ ~ENABLED CommandRead(c)
        /\ /\ proc[c].op \in SimpleOps /\ proc[c].pc = "command_read"
           /\ ~conns[proc[c].conn].eof /\ faults = 0
           => ~ENABLED CommandRead(c)

\* A version command returned the reply it read to the end of the stream.
C18_Witness ==
    \E c \in Callers :
        /\ proc[c].op = "version"
        /\ proc[c].pc = "done"
        /\ proc[c].result.kind = "Ok"
        /\ proc[c].response = Some(RespVersion)
        /\ conns[proc[c].conn].eof

\* No read of the source follows one that returned less than a window.
NoReadAfterShort(reads) ==
    \A i \in 1..(Len(reads) - 1) : BLen(reads[i]) = WindowSize

\* The last read of the source returned some bytes, but less than a window.
EndsShort(reads) ==
    /\ reads # <<>>
    /\ BLen(reads[Len(reads)]) > 0
    /\ BLen(reads[Len(reads)]) < WindowSize

\* C19: in scan_stream the first read shorter than 4096 bytes ends the
\* upload: no read follows it, and once the terminator is written the
\* connection has been handed the command, one frame for each read in order,
\* the short one last, and the terminator, so that the payload is the content
\* of the source up to and including the short read.
C19_ShortReadEndsUpload ==
    \A c \in Callers :
        proc[c].op = "scan_stream" =>
            /\ NoReadAfterShort(proc[c].reads)
            /\ proc[c].pc = "upload_read" /\ EndsShort(proc[c].reads) =>
                  proc[c].written =
                     BCat(FromBytes(CmdInstream),
                          BCat(Frames(proc[c].reads), Terminator))

\* C20: in an upload every write of the command, a length prefix, a chunk or
\* the terminator transmits all the bytes given to it or ends the operation
\* with CommandError: bytes given to a write and not on the wire mean the
\* operation has failed, and an upload that read a response has on the wire
\* all it wrote.
C20_WholeWritesOrFailure ==
    \A c \in Callers :
        proc[c].op \in UploadOps /\ proc[c].opened = 1 =>
            /\ conns[proc[c].conn].wire # conns[proc[c].conn].sent =>
                  proc[c].pc = "done" /\ proc[c].result.kind = "CommandError"
            /\ proc[c].response # None =>
                  conns[proc[c].conn].wire = proc[c].written

====
